---- MODULE Spec2Model ----
(***************************************************************************)
(* A model of the tagger (src/src/tagger.ts): the hashtag generator for    *)
(* Markdown posts.  Strings are sequences of one-character strings, so     *)
(* that the regular-expression steps of the program are computed, not      *)
(* assumed.  The libraries the program calls (gray-matter, js-yaml,        *)
(* fast-glob, node:fs) are its environment: a file is held in its parsed   *)
(* form (frontmatter fields and body), and an I/O call either succeeds or  *)
(* throws.                                                                 *)
(***************************************************************************)
EXTENDS Integers, Sequences, FiniteSets, TLC

\* ------------------------------------------------------------------------
\* Characters and strings
\* ------------------------------------------------------------------------

LowerSeq ==
  <<"a","b","c","d","e","f","g","h","i","j","k","l","m",
    "n","o","p","q","r","s","t","u","v","w","x","y","z">>

UpperSeq ==
  <<"A","B","C","D","E","F","G","H","I","J","K","L","M",
    "N","O","P","Q","R","S","T","U","V","W","X","Y","Z">>

Lower == {LowerSeq[i] : i \in 1..26}

Digit == {"0","1","2","3","4","5","6","7","8","9"}

\* \s of a JavaScript regular expression, within the characters modelled
Whitespace == {" ", "\t", "\n", "\r"}

\* the value null of the program (no string has this element)
Null == <<"null">>

\* F(e) with e evaluated once, before F is applied to its value
ByValue(F(_), e) == CHOOSE y \in {F(x) : x \in {e}} : TRUE

\* String.prototype.toLowerCase, one character
toLowerChar(c) ==
  IF \E i \in 1..26 : UpperSeq[i] = c
    THEN LowerSeq[CHOOSE i \in 1..26 : UpperSeq[i] = c]
    ELSE c

toLowerCase(s) == [i \in 1..Len(s) |-> toLowerChar(s[i])]

\* s without its first n characters
Drop(s, n) == IF n >= Len(s) THEN <<>> ELSE SubSeq(s, n + 1, Len(s))

\* the number of leading characters of s that are in set C
RECURSIVE LeadingIn(_, _)
LeadingIn(s, C) ==
  IF s = <<>> \/ s[1] \notin C THEN 0 ELSE 1 + LeadingIn(Tail(s), C)

\* the number of trailing characters of s that are in set C
RECURSIVE TrailingIn(_, _)
TrailingIn(s, C) ==
  IF s = <<>> \/ s[Len(s)] \notin C THEN 0
  ELSE 1 + TrailingIn(SubSeq(s, 1, Len(s) - 1), C)

\* String.prototype.trim
trim(s) ==
  LET a == LeadingIn(s, Whitespace)
      b == TrailingIn(s, Whitespace)
  IN  IF a = Len(s) THEN <<>> ELSE SubSeq(s, a + 1, Len(s) - b)

\* replace(/X/g, r) for a one-character class X and a replacement string r
RECURSIVE replaceEach(_, _, _)
replaceEach(s, C, r) ==
  IF s = <<>> THEN <<>>
  ELSE (IF s[1] \in C THEN r ELSE <<s[1]>>) \o replaceEach(Tail(s), C, r)

\* replace(/X+/g, r): every maximal run of characters of class C becomes r
RECURSIVE collapseRuns(_, _, _)
collapseRuns(s, C, r) ==
  IF s = <<>> THEN <<>>
  ELSE IF s[1] \in C THEN r \o collapseRuns(Drop(s, LeadingIn(s, C)), C, r)
  ELSE <<s[1]>> \o collapseRuns(Tail(s), C, r)

STOPWORDS == {
  <<"a">>, <<"a","n">>, <<"a","n","d">>, <<"a","r","e">>, <<"a","s">>, <<"a","t">>, <<"b","e">>,
  <<"b","u","t">>, <<"b","y">>, <<"c","a","n">>, <<"c","o","u","l","d">>, <<"d","i","d">>,
  <<"d","o">>, <<"d","o","e","s">>, <<"f","o","r">>, <<"f","r","o","m">>, <<"h","a","d">>,
  <<"h","a","s">>, <<"h","a","v","e">>, <<"h","o","w">>, <<"i">>, <<"i","f">>, <<"i","n">>,
  <<"i","n","t","o">>, <<"i","s">>, <<"i","t">>, <<"i","t","s">>, <<"j","u","s","t">>,
  <<"l","i","k","e">>, <<"m","a","y">>, <<"m","i","g","h","t">>, <<"m","o","r","e">>,
  <<"m","o","s","t">>, <<"n","o","t">>, <<"o","f">>, <<"o","n">>, <<"o","r">>, <<"o","u","r">>,
  <<"s","h","o","u","l","d">>, <<"s","o">>, <<"s","o","m","e">>, <<"s","u","c","h">>,
  <<"t","h","a","n">>, <<"t","h","a","t">>, <<"t","h","e">>, <<"t","h","e","i","r">>,
  <<"t","h","e","n">>, <<"t","h","e","r","e">>, <<"t","h","e","s","e">>, <<"t","h","i","s">>,
  <<"t","h","o","s","e">>, <<"t","o">>, <<"t","o","o">>, <<"u","p">>, <<"u","s","e">>,
  <<"u","s","i","n","g">>, <<"w","a","s">>, <<"w","e">>, <<"w","e","r","e">>, <<"w","h","a","t">>,
  <<"w","h","e","n">>, <<"w","h","e","r","e">>, <<"w","h","i","c","h">>, <<"w","h","o">>,
  <<"w","h","y">>, <<"w","i","l","l">>, <<"w","i","t","h">>, <<"y","o","u">>, <<"y","o","u","r">>
}

\* the characters [a-z0-9\s-] of line 267
SlugKeep == Lower \cup Digit \cup Whitespace \cup {"-"}

\* replace(/^#+/g, '')
stripLeadingHashes(s) == Drop(s, LeadingIn(s, {"#"}))

\* replace(/['"]/g, '')
removeQuotes(s) == SelectSeq(s, LAMBDA c : c \notin {"'", "\""})

\* replace(/[^a-z0-9\s-]/g, ' ')
keepSlugChars(s) == [i \in 1..Len(s) |-> IF s[i] \in SlugKeep THEN s[i] ELSE " "]

\* replace(/^-|-$/g, '') on a string without repeated hyphens
stripFirstHyphen(s) == IF s # <<>> /\ s[1] = "-" THEN Tail(s) ELSE s

stripLastHyphen(s) ==
  IF s # <<>> /\ s[Len(s)] = "-" THEN SubSeq(s, 1, Len(s) - 1) ELSE s

\* lines 261-272: the chain of replacements that yields cleaned
cleanSlug(raw) ==
  ByValue(stripLastHyphen,
  ByValue(stripFirstHyphen,
  ByValue(LAMBDA s : collapseRuns(s, {"-"}, <<"-">>),          \* /-+/g
  ByValue(LAMBDA s : replaceEach(s, Whitespace, <<"-">>),      \* /\s/g
  ByValue(trim,
  ByValue(LAMBDA s : collapseRuns(s, Whitespace, <<" ">>),     \* /\s+/g
  ByValue(keepSlugChars,
  ByValue(LAMBDA s : replaceEach(s, {"&"}, <<" ","a","n","d"," ">>),  \* /&/g
  ByValue(removeQuotes,
  ByValue(stripLeadingHashes,
  ByValue(trim,
  ByValue(toLowerCase, raw))))))))))))

\* lines 274-278 without the stopword test of line 276
rejectOrKeep_NoStopwords(cleaned) ==
  IF cleaned = <<>> THEN Null
  ELSE IF Len(cleaned) < 2 THEN Null
  ELSE cleaned

\* lines 274-278
rejectOrKeep(cleaned) ==
  IF cleaned = <<>> THEN Null
  ELSE IF Len(cleaned) < 2 THEN Null
  ELSE IF cleaned \in STOPWORDS THEN Null
  ELSE cleaned

slugifyHashtag(raw) == ByValue(rejectOrKeep, cleanSlug(raw))

\* the Label grammar: length >= 2 over [a-z0-9-], no leading, trailing or
\* repeated hyphen, not a stopword
IsLabel(s) ==
  /\ Len(s) >= 2
  /\ \A i \in 1..Len(s) : s[i] \in Lower \cup Digit \cup {"-"}
  /\ s[1] # "-"
  /\ s[Len(s)] # "-"
  /\ \A i \in 1..(Len(s) - 1) : ~(s[i] = "-" /\ s[i + 1] = "-")
  /\ s \notin STOPWORDS

\* all sequences over set S of length at most n
SeqsUpTo(S, n) == UNION {[1..k -> S] : k \in 0..n}

\* the elements of a sequence
Range(s) == {s[i] : i \in 1..Len(s)}

RECURSIVE uniqueStable(_)
uniqueStable(items) ==
  IF items = <<>> THEN <<>>
  ELSE ByValue(LAMBDA front :
                 IF items[Len(items)] \in Range(front) THEN front
                 ELSE Append(front, items[Len(items)]),
               uniqueStable(SubSeq(items, 1, Len(items) - 1)))

\* String.prototype.split(sep) for a one-character separator
RECURSIVE split(_, _)
split(s, sep) ==
  IF \A i \in 1..Len(s) : s[i] # sep THEN <<s>>
  ELSE ByValue(LAMBDA k :
                 <<SubSeq(s, 1, k - 1)>>
                   \o ByValue(LAMBDA rest : split(rest, sep), Drop(s, k)),
               CHOOSE i \in 1..Len(s) :
                 s[i] = sep /\ \A j \in 1..(i - 1) : s[j] # sep)

tokeniseSlug(slug) == {t \in Range(split(slug, "-")) : t # <<>>}

\* a score or threshold n/d, d > 0, compared as the quotient the program computes
Frac(n, d) == [n |-> n, d |-> d]

FracGt(a, b) == a.n * b.d > b.n * a.d

FracGeq(a, b) == a.n * b.d >= b.n * a.d

FracEq(a, b) == a.n * b.d = b.n * a.d

\* lines 338-342: the Jaccard score of two token sets
scoreOf(inter, union) == IF union = 0 THEN Frac(0, 1) ELSE Frac(inter, union)

jaccard(candTokens, exTokens) ==
  ByValue(LAMBDA inter :
            ByValue(LAMBDA union : scoreOf(inter, union),
                    Cardinality(candTokens) + Cardinality(exTokens) - inter),
          Cardinality(candTokens \cap exTokens))

\* lines 335-347 with a later entry taking over on an equal score (>= at line 344)
bestAfter_LastWins(candidate, existing, best, bestScore) ==
  IF tokeniseSlug(existing) = {} THEN [best |-> best, bestScore |-> bestScore]
  ELSE ByValue(LAMBDA score :
                 IF FracGeq(score, bestScore) /\ score.n > 0
                   THEN [best |-> existing, bestScore |-> score]
                 ELSE [best |-> best, bestScore |-> bestScore],
               ByValue(LAMBDA candTokens : jaccard(candTokens, tokeniseSlug(existing)),
                       tokeniseSlug(candidate)))

\* lines 335-347: best and bestScore after the entry `existing`
bestAfter(candidate, existing, best, bestScore) ==
  IF tokeniseSlug(existing) = {} THEN [best |-> best, bestScore |-> bestScore]
  ELSE ByValue(LAMBDA score :
                 IF FracGt(score, bestScore) THEN [best |-> existing, bestScore |-> score]
                 ELSE [best |-> best, bestScore |-> bestScore],
               ByValue(LAMBDA candTokens : jaccard(candTokens, tokeniseSlug(existing)),
                       tokeniseSlug(candidate)))

\* lines 332-348: the loop over cache[k..], with best and bestScore so far;
\* hit is TRUE when the loop returned at line 333
RECURSIVE scanCache(_, _, _, _)
scanCache(candidate, cache, k, b) ==
  IF k > Len(cache) THEN [hit |-> FALSE, best |-> b.best, bestScore |-> b.bestScore]
  ELSE IF cache[k] = candidate
    THEN [hit |-> TRUE, best |-> cache[k], bestScore |-> Frac(1, 1)]
  ELSE ByValue(LAMBDA next : scanCache(candidate, cache, k + 1, next),
               bestAfter(candidate, cache[k], b.best, b.bestScore))

\* the loop of mapToCache without the return of line 333
RECURSIVE scanCache_NoExact(_, _, _, _)
scanCache_NoExact(candidate, cache, k, b) ==
  IF k > Len(cache) THEN [hit |-> FALSE, best |-> b.best, bestScore |-> b.bestScore]
  ELSE ByValue(LAMBDA next : scanCache_NoExact(candidate, cache, k + 1, next),
               bestAfter(candidate, cache[k], b.best, b.bestScore))

\* lines 333, 350-351: the value returned after the loop ended with r
mapResult(candidate, threshold, r) ==
  IF r.hit THEN [mapped |-> r.best, score |-> Frac(1, 1), from |-> r.best]
  ELSE IF FracGeq(r.bestScore, threshold)
    THEN [mapped |-> r.best, score |-> r.bestScore, from |-> r.best]
  ELSE [mapped |-> candidate, score |-> r.bestScore, from |-> Null]

\* mapToCache with the exact-match return of line 333 left out
mapToCache_NoExact(candidate, cache, threshold) ==
  IF tokeniseSlug(candidate) = {}
    THEN [mapped |-> candidate, score |-> Frac(0, 1), from |-> Null]
  ELSE ByValue(LAMBDA r : mapResult(candidate, threshold, r),
               scanCache_NoExact(candidate, cache, 1,
                                 [best |-> candidate, bestScore |-> Frac(0, 1)]))

mapToCache(candidate, cache, threshold) ==
  IF tokeniseSlug(candidate) = {}
    THEN [mapped |-> candidate, score |-> Frac(0, 1), from |-> Null]
  ELSE ByValue(LAMBDA r : mapResult(candidate, threshold, r),
               scanCache(candidate, cache, 1,
                         [best |-> candidate, bestScore |-> Frac(0, 1)]))

\* a JSON or YAML value tested by isStringArray (line 245): a string array
\* with its items, or any other value (or none)
StrArray(items) == [isStringArray |-> TRUE, items |-> items]

NotStrArray == [isStringArray |-> FALSE, items |-> <<>>]

\* a JSON value read as a number option: a finite number, or anything else
\* (`typeof v === 'number' && Number.isFinite(v)` is false; the default applies)
Num(v) == [isNumber |-> TRUE, v |-> v]

NotNum == [isNumber |-> FALSE, v |-> 0]

clampNumber(v, min, max) ==
  IF FracGt(min, v) THEN min ELSE IF FracGt(v, max) THEN max ELSE v

\* lines 392-406
defaults ==
  [min |-> 3, max |-> 12, denylist |-> <<>>, denylistMode |-> "exact",
   cacheSimilarityThreshold |-> Frac(3, 5), warningSuggestionLimit |-> 10,
   candidateLimit |-> 500, keywordLimit |-> 30]

\* the options of RequiredTaggerConfig that the program reads after loadConfig
\* (contentDir, contentGlob and cacheFile are paths: the files they name are
\* the state of the model; verboseRemapLimit only limits log lines;
\* extraWordScanLimit is never read)
confOf(raw) ==
  [min |-> IF raw.min.isNumber THEN raw.min.v ELSE defaults.min,
   max |-> IF raw.max.isNumber THEN raw.max.v ELSE defaults.max,
   denylist |->
     IF raw.denylist.isStringArray
       THEN SelectSeq([i \in 1..Len(raw.denylist.items) |->
                         slugifyHashtag(raw.denylist.items[i])],
                      LAMBDA s : s # Null)
       ELSE <<>>,
   denylistMode |->
     IF raw.denylistMode \in {"glob", "exact"}
       THEN raw.denylistMode ELSE defaults.denylistMode,
   cacheSimilarityThreshold |->
     IF raw.cacheSimilarityThreshold.isNumber
       THEN clampNumber(raw.cacheSimilarityThreshold.v, Frac(0, 1), Frac(1, 1))
       ELSE defaults.cacheSimilarityThreshold,
   warningSuggestionLimit |->
     IF raw.warningSuggestionLimit.isNumber
       THEN raw.warningSuggestionLimit.v ELSE defaults.warningSuggestionLimit,
   candidateLimit |->
     IF raw.candidateLimit.isNumber THEN raw.candidateLimit.v ELSE defaults.candidateLimit,
   keywordLimit |->
     IF raw.keywordLimit.isNumber THEN raw.keywordLimit.v ELSE defaults.keywordLimit]

\* lines 452-469
validated(c) ==
  IF c.min < 1 THEN [threw |-> "min", conf |-> c]
  ELSE IF c.max < c.min THEN [threw |-> "max", conf |-> c]
  ELSE [threw |-> "none", conf |-> c]

\* loadConfig(cfgPath) on the config file `file`: status "absent" (readJsonFile
\* returns null), "malformed" (readJsonFile throws) or "ok" with the parsed
\* object.  threw names the error thrown, "none" when it returns conf.
loadConfig(file) ==
  IF file.status = "malformed" THEN [threw |-> "readJson", conf |-> defaults]
  ELSE IF file.status = "absent" THEN [threw |-> "none", conf |-> defaults]
  ELSE ByValue(validated, confOf(file))

\* a parsed config object with every key absent
EmptyConfig ==
  [status |-> "ok", min |-> NotNum, max |-> NotNum, denylist |-> NotStrArray,
   denylistMode |-> "", cacheSimilarityThreshold |-> NotNum,
   warningSuggestionLimit |-> NotNum, candidateLimit |-> NotNum,
   keywordLimit |-> NotNum]

\* new RegExp(globToRegExp(glob)).test(x): every character of the glob is
\* literal (escaped at line 504, or not special) except `*` (any run of
\* characters) and `?` (one character); anchored, case-insensitive
RECURSIVE globTest(_, _)
globTest(glob, x) ==
  IF glob = <<>> THEN x = <<>>
  ELSE IF glob[1] = "*"
    THEN \E k \in 0..Len(x) : globTest(Tail(glob), Drop(x, k))
  ELSE IF x = <<>> THEN FALSE
  ELSE IF glob[1] = "?" THEN globTest(Tail(glob), Tail(x))
  ELSE /\ toLowerChar(glob[1]) = toLowerChar(x[1])
       /\ globTest(Tail(glob), Tail(x))

filterNewWithDenylist(newItems, denylist, mode) ==
  IF Len(denylist) = 0 THEN [kept |-> newItems, denied |-> <<>>]
  ELSE IF mode = "exact"
    THEN [kept |-> SelectSeq(newItems, LAMBDA x : x \notin Range(denylist)),
          denied |-> SelectSeq(newItems, LAMBDA x : x \in Range(denylist))]
  ELSE LET hit(x) == \E i \in 1..Len(denylist) : globTest(denylist[i], x)
       IN  [kept |-> SelectSeq(newItems, LAMBDA x : ~hit(x)),
            denied |-> SelectSeq(newItems, hit)]

Min(S) == CHOOSE x \in S : \A y \in S : x <= y

Max(S) == CHOOSE x \in S : \A y \in S : x >= y

\* Array.prototype.slice(0, end) for an integer end (a negative end counts
\* from the end of the array)
slice(s, end) ==
  LET e == IF end < 0 THEN Max({Len(s) + end, 0}) ELSE Min({end, Len(s)})
  IN  SubSeq(s, 1, e)

\* the concatenation of a sequence of sequences
RECURSIVE flatten(_)
flatten(ss) == IF ss = <<>> THEN <<>> ELSE Head(ss) \o flatten(Tail(ss))

\* s at position i starts with pre
StartsWithAt(s, i, pre) ==
  /\ i + Len(pre) - 1 <= Len(s)
  /\ SubSeq(s, i, i + Len(pre) - 1) = pre

\* the backtick character (the lexer of TLA+ rejects it inside a string)
BT == "backtick"

\* the number of leading characters of s that are not in set C
RECURSIVE LeadingNotIn(_, _)
LeadingNotIn(s, C) ==
  IF s = <<>> \/ s[1] \in C THEN 0 ELSE 1 + LeadingNotIn(Tail(s), C)

\* replace(/FENCE[\s\S]*?FENCE/g, ' ') where FENCE is three backticks
RECURSIVE stripFenced(_)
stripFenced(s) ==
  LET fenceAt(i) == StartsWithAt(s, i, <<BT, BT, BT>>)
      opens == {i \in 1..Len(s) : fenceAt(i) /\ \E j \in (i + 3)..Len(s) : fenceAt(j)}
  IN  IF opens = {} THEN s
      ELSE LET i == Min(opens)
               j == Min({k \in (i + 3)..Len(s) : fenceAt(k)})
           IN  SubSeq(s, 1, i - 1) \o <<" ">> \o stripFenced(Drop(s, j + 2))

\* replace(/B[^B]*B/g, ' ') where B is one backtick
RECURSIVE stripInline(_)
stripInline(s) ==
  LET opens == {i \in 1..Len(s) : s[i] = BT /\ \E j \in (i + 1)..Len(s) : s[j] = BT}
  IN  IF opens = {} THEN s
      ELSE LET i == Min(opens)
               j == Min({k \in (i + 1)..Len(s) : s[k] = BT})
           IN  SubSeq(s, 1, i - 1) \o <<" ">> \o stripInline(Drop(s, j))

stripCodeBlocks(markdown) == ByValue(stripInline, ByValue(stripFenced, markdown))

\* a character that `.` matches
DotChar(c) == c \notin {"\n", "\r"}

\* \s+ took the first j characters of rest and (.+?) the next p; \s*$ matches
\* what is left
headingOk(rest, j, p) ==
  /\ \A i \in (j + 1)..(j + p) : DotChar(rest[i])
  /\ \A i \in (j + p + 1)..Len(rest) : rest[i] \in Whitespace

\* group 2 when \s+ takes j characters: (.+?) is lazy, it takes the fewest
headingCut(rest, j) ==
  SubSeq(rest, j + 1, j + Min({p \in 1..(Len(rest) - j) : headingOk(rest, j, p)}))

\* the numbers of characters \s+ can take
headingStarts(rest) ==
  {j \in 1..LeadingIn(rest, Whitespace) :
     \E p \in 1..(Len(rest) - j) : headingOk(rest, j, p)}

\* \s+ is greedy: it takes the most it can
headingText(rest) ==
  IF headingStarts(rest) = {} THEN Null ELSE headingCut(rest, Max(headingStarts(rest)))

\* /^(#{1,6})\s+(.+?)\s*$/.exec(line): group 2, or Null when there is no match
headingOf(line) ==
  IF LeadingIn(line, {"#"}) \notin 1..6 THEN Null
  ELSE ByValue(headingText, Drop(line, LeadingIn(line, {"#"})))

headingsOfLines(lines) ==
  SelectSeq([i \in 1..Len(lines) |-> headingOf(lines[i])], LAMBDA m : m # Null)

extractHeadings(markdown) ==
  ByValue(headingsOfLines, ByValue(LAMBDA s : split(s, "\n"), markdown))

\* replace(/https?:\/\/\S+/g, ' ')
RECURSIVE stripUrls(_)
stripUrls(s) ==
  IF s = <<>> THEN <<>>
  ELSE LET k == IF StartsWithAt(s, 1, <<"h","t","t","p",":","/","/">>) THEN 7
                ELSE IF StartsWithAt(s, 1, <<"h","t","t","p","s",":","/","/">>) THEN 8
                ELSE 0
           run == LeadingNotIn(Drop(s, k), Whitespace)
       IN  IF k > 0 /\ run > 0 THEN <<" ">> \o stripUrls(Drop(s, k + run))
           ELSE <<s[1]>> \o stripUrls(Tail(s))

\* lines 303-304
keepWords(ws) == SelectSeq(ws, LAMBDA w : Len(w) >= 3 /\ w \notin STOPWORDS)

extractWords(text) ==
  ByValue(keepWords,
  ByValue(LAMBDA s : split(s, " "),
  ByValue(trim,
  ByValue(LAMBDA s : collapseRuns(s, Whitespace, <<" ">>),
  ByValue(keepSlugChars,
  ByValue(stripUrls,
  ByValue(toLowerCase, text)))))))

\* the number of occurrences of x in sequence s
Count(s, x) == Cardinality({i \in 1..Len(s) : s[i] = x})

\* line 312 with a stable sort: key i comes before key j
sortsBefore(words, keys, i, j) ==
  \/ Count(words, keys[i]) > Count(words, keys[j])
  \/ Count(words, keys[i]) = Count(words, keys[j]) /\ i < j

\* the keys of the Map counts (in insertion order) sorted by descending count
sortedKeys(words, keys) ==
  [r \in 1..Len(keys) |->
     keys[CHOOSE i \in 1..Len(keys) :
            r = 1 + Cardinality({j \in 1..Len(keys) : sortsBefore(words, keys, j, i)})]]

\* lines 308-312
countAndSort(words) == ByValue(LAMBDA keys : sortedKeys(words, keys), uniqueStable(words))

topKeywords(text, limit) ==
  ByValue(LAMBDA sorted : slice(sorted, Max({0, limit})),
  ByValue(countAndSort, extractWords(text)))

getTitleFromFrontmatter(fm) ==
  IF fm.title # Null /\ trim(fm.title) # <<>> THEN trim(fm.title) ELSE Null

\* items.map(slugifyHashtag).filter(non-null)
slugifyAll(items) ==
  SelectSeq([i \in 1..Len(items) |-> slugifyHashtag(items[i])], LAMBDA s : s # Null)

\* lines 619-622: the hashtags of the frontmatter, normalised
existingHashtagsOf(file) ==
  IF file.hashtags.isStringArray
    THEN ByValue(uniqueStable, slugifyAll(file.hashtags.items))
    ELSE <<>>

\* line 624
titleOf(file) ==
  IF getTitleFromFrontmatter(file) # Null THEN getTitleFromFrontmatter(file) ELSE file.base

\* lines 627-628
tagCandidatesOf(file) == IF file.tags.isStringArray THEN file.tags.items ELSE <<>>

\* lines 624-633.  A file is held as gray-matter parses it: base is
\* path.basename(filePath, ext); title is fm.title when it is a string, else
\* Null; hashtags and tags are fm.hashtags and fm.tags; content is the body.
\* status tells what the file system and the parser do with the file: "ok",
\* "unreadable" (fs.readFile throws), "badyaml" (matter throws) or "readonly"
\* (fs.writeFile throws).
rawCandidatesOf(file, conf) ==
  ByValue(LAMBDA unique : slice(unique, conf.candidateLimit),
  ByValue(uniqueStable,
          <<titleOf(file)>>
            \o extractHeadings(file.content)
            \o tagCandidatesOf(file)
            \o topKeywords(stripCodeBlocks(file.content), conf.keywordLimit)))

\* line 650 with the new labels put before the existing ones
combine_NewFirst(existingHashtags, mappedNew, max) ==
  ByValue(LAMBDA unique : slice(unique, max),
  ByValue(uniqueStable, mappedNew \o existingHashtags))

\* line 650
combine(existingHashtags, mappedNew, max) ==
  ByValue(LAMBDA unique : slice(unique, max),
  ByValue(uniqueStable, existingHashtags \o mappedNew))

\* line 693 storing the added labels in place of the combined list
newRawOf_AddedOnly(file, combined) ==
  [file EXCEPT !.hashtags =
                 StrArray(SelectSeq(combined,
                                    LAMBDA h : h \notin Range(existingHashtagsOf(file)))),
               !.content = Drop(file.content, LeadingIn(file.content, {"\n"}))
                             \o <<"\n">>]

\* lines 693-695: the file that processFile writes.  The frontmatter is dumped
\* with hashtags replaced; the body loses its leading newlines and gains one
\* at its end.
newRawOf(file, combined) ==
  [file EXCEPT !.hashtags = StrArray(combined),
               !.content = Drop(file.content, LeadingIn(file.content, {"\n"}))
                             \o <<"\n">>]

\* the value processFile returns, or the error it throws (threw # "none");
\* wrote tells whether fs.writeFile succeeded, newRaw is what it wrote
Outcome(threw, changed, added, final, wrote, newRaw, warned) ==
  [threw |-> threw, changed |-> changed, added |-> added, final |-> final,
   wrote |-> wrote, newRaw |-> newRaw, warned |-> warned]

\* lines 643-648
mapAll(generated, cacheHashtags, threshold) ==
  [i \in 1..Len(generated) |-> mapToCache(generated[i], cacheHashtags, threshold).mapped]

\* lines 635-648: the mapped new labels of a file
mappedNewOf(file, conf, cacheHashtags) ==
  ByValue(LAMBDA generated : mapAll(generated, cacheHashtags, conf.cacheSimilarityThreshold),
  ByValue(LAMBDA new : filterNewWithDenylist(new, conf.denylist, conf.denylistMode).kept,
  ByValue(uniqueStable,
  ByValue(slugifyAll, rawCandidatesOf(file, conf)))))

\* lines 652-653
addedOf(combined, existingHashtags) ==
  SelectSeq(combined, LAMBDA h : h \notin Range(existingHashtags))

\* line 676
warnedOf(combined, conf) == Len(combined) = 1 \/ Len(combined) < conf.min

\* lines 691-700
writeOrReturn(file, cfg, io, combined, added, newRaw, warned) ==
  IF Len(added) = 0 THEN Outcome("none", FALSE, <<>>, combined, FALSE, file, warned)
  ELSE IF newRaw = file THEN Outcome("none", FALSE, <<>>, combined, FALSE, file, warned)
  ELSE IF cfg.dryRun THEN Outcome("none", TRUE, added, combined, FALSE, file, warned)
  ELSE IF io = "writeFails" THEN Outcome("write", FALSE, <<>>, <<>>, FALSE, file, warned)
  ELSE Outcome("none", TRUE, added, combined, TRUE, newRaw, warned)

\* lines 652-700
afterCombine(file, cfg, conf, io, existingHashtags, combined) ==
  writeOrReturn(file, cfg, io, combined, addedOf(combined, existingHashtags),
                newRawOf(file, combined), warnedOf(combined, conf))

\* lines 650-700
afterMapping(file, cfg, conf, io, existingHashtags, mappedNew) ==
  ByValue(LAMBDA combined : afterCombine(file, cfg, conf, io, existingHashtags, combined),
          combine(existingHashtags, mappedNew, conf.max))

\* processFile on the file as it is on disk.  io is what the file system does
\* during the call: "ok", "readFails" (line 615 throws), "parseFails" (line 616
\* throws) or "writeFails" (line 698 throws, if it is reached).
processFile(file, cfg, conf, cacheHashtags, io) ==
  IF io = "readFails" THEN Outcome("read", FALSE, <<>>, <<>>, FALSE, file, FALSE)
  ELSE IF io = "parseFails" THEN Outcome("parse", FALSE, <<>>, <<>>, FALSE, file, FALSE)
  ELSE ByValue(LAMBDA existingHashtags :
                 ByValue(LAMBDA mappedNew :
                           afterMapping(file, cfg, conf, io, existingHashtags, mappedNew),
                         mappedNewOf(file, conf, cacheHashtags)),
               existingHashtagsOf(file))

DigitSeq == <<"0","1","2","3","4","5","6","7","8","9">>

\* the collation rank of a character of a label: hyphen, then digits, then
\* letters (the order localeCompare gives the characters of [a-z0-9-])
CharRank(c) ==
  IF c = "-" THEN 0
  ELSE IF c \in Digit THEN CHOOSE i \in 1..10 : DigitSeq[i] = c
  ELSE 10 + (CHOOSE i \in 1..26 : LowerSeq[i] = c)

\* a.localeCompare(b) < 0 for labels a and b
RECURSIVE localeLess(_, _)
localeLess(a, b) ==
  IF b = <<>> THEN FALSE
  ELSE IF a = <<>> THEN TRUE
  ELSE IF a[1] # b[1] THEN CharRank(a[1]) < CharRank(b[1])
  ELSE localeLess(Tail(a), Tail(b))

\* items.sort((a, b) => a.localeCompare(b)) for items without duplicates
sortLabels(items) ==
  [r \in 1..Len(items) |->
     items[CHOOSE i \in 1..Len(items) :
             r = 1 + Cardinality({j \in 1..Len(items) : localeLess(items[j], items[i])})]]

\* a path that names no file: fs.readFile throws ENOENT
MissingFile ==
  [status |-> "unreadable", base |-> <<>>, title |-> Null, hashtags |-> NotStrArray,
   tags |-> NotStrArray, content |-> <<>>]

fileAt(files, path) == IF path \in DOMAIN files THEN files[path] ELSE MissingFile

\* lines 485-494: the slugs that one file contributes to the scan (none when
\* reading or parsing it throws: the error is caught at line 495)
scannedOf(file) ==
  IF file.status \in {"unreadable", "badyaml"} THEN <<>>
  ELSE IF file.hashtags.isStringArray THEN slugifyAll(file.hashtags.items)
  ELSE <<>>

scanExistingHashtags(paths, files) ==
  ByValue(sortLabels,
  ByValue(uniqueStable,
  ByValue(flatten, [i \in 1..Len(paths) |-> scannedOf(fileAt(files, paths[i]))])))

\* the cache file after writeJsonFile of a CacheFile with these hashtags
writtenCache(cacheFile, hashtags) ==
  [cacheFile EXCEPT !.status = "ok", !.valid = TRUE, !.hashtags = hashtags]

\* buildCache with the test of dryRun at line 548 left out
buildCache_IgnoresDryRun(paths, files, cacheFile, dryRun) ==
  IF ~cacheFile.writable
    THEN [threw |-> "cacheWrite", hashtags |-> scanExistingHashtags(paths, files),
          cacheFile |-> cacheFile, wrote |-> TRUE]
  ELSE [threw |-> "none", hashtags |-> scanExistingHashtags(paths, files),
        cacheFile |-> writtenCache(cacheFile, scanExistingHashtags(paths, files)),
        wrote |-> TRUE]

\* buildCache: the hashtags of the CacheFile it returns, the cache file on disk
\* afterwards, whether writeJsonFile was called (wrote) and whether it threw.
\* The cache file is a record: status "absent", "malformed" (readJsonFile
\* throws) or "ok"; valid tells whether the JSON has version 1 and an array
\* hashtags; writable whether writeJsonFile succeeds.
buildCache(paths, files, cacheFile, dryRun) ==
  IF dryRun
    THEN [threw |-> "none", hashtags |-> scanExistingHashtags(paths, files),
          cacheFile |-> cacheFile, wrote |-> FALSE]
  ELSE IF ~cacheFile.writable
    THEN [threw |-> "cacheWrite", hashtags |-> scanExistingHashtags(paths, files),
          cacheFile |-> cacheFile, wrote |-> TRUE]
  ELSE [threw |-> "none", hashtags |-> scanExistingHashtags(paths, files),
        cacheFile |-> writtenCache(cacheFile, scanExistingHashtags(paths, files)),
        wrote |-> TRUE]

\* loadOrCreateCache that takes any failure to load as an empty vocabulary
loadOrCreateCache_EmptyOnFailure(paths, files, cacheFile, dryRun) ==
  IF cacheFile.status = "ok" /\ cacheFile.valid
    THEN [threw |-> "none", hashtags |-> cacheFile.hashtags, cacheFile |-> cacheFile,
          wrote |-> FALSE]
  ELSE [threw |-> "none", hashtags |-> <<>>, cacheFile |-> cacheFile, wrote |-> FALSE]

loadOrCreateCache(paths, files, cacheFile, dryRun) ==
  IF cacheFile.status = "malformed"
    THEN [threw |-> "cacheRead", hashtags |-> <<>>, cacheFile |-> cacheFile,
          wrote |-> FALSE]
  ELSE IF cacheFile.status = "ok" /\ cacheFile.valid
    THEN [threw |-> "none", hashtags |-> cacheFile.hashtags, cacheFile |-> cacheFile,
          wrote |-> FALSE]
  ELSE buildCache(paths, files, cacheFile, dryRun)

\* a.startsWith('--'), for the arguments of the model
IsOption(a) ==
  a \in {"--help", "--config", "--file", "--dry-run", "--write", "--cache-rebuild",
         "--verbose", "--bogus"}

\* lines 210-217
DefaultCli ==
  [configFile |-> "tagger.config.json", singleFile |-> "", dryRun |-> TRUE,
   write |-> FALSE, verbose |-> FALSE, cacheRebuild |-> FALSE]

\* getValue(i) throws (lines 219-223)
noValue(argv, i) == i + 1 > Len(argv) \/ IsOption(argv[i + 1])

\* lines 225-240: the loop from argument i on; ended is "return", "exit0"
\* (--help) or "throw"
RECURSIVE parseFrom(_, _, _)
parseFrom(argv, i, c) ==
  IF i > Len(argv) THEN [ended |-> "return", cfg |-> c]
  ELSE IF argv[i] = "--help" THEN [ended |-> "exit0", cfg |-> c]
  ELSE IF argv[i] \in {"--config", "--file"} /\ noValue(argv, i)
    THEN [ended |-> "throw", cfg |-> c]
  ELSE IF argv[i] = "--config"
    THEN parseFrom(argv, i + 1, [c EXCEPT !.configFile = argv[i + 1]])
  ELSE IF argv[i] = "--file"
    THEN parseFrom(argv, i + 1, [c EXCEPT !.singleFile = argv[i + 1]])
  ELSE IF argv[i] = "--dry-run" THEN parseFrom(argv, i + 1, [c EXCEPT !.dryRun = TRUE])
  ELSE IF argv[i] = "--write"
    THEN parseFrom(argv, i + 1, [c EXCEPT !.write = TRUE, !.dryRun = FALSE])
  ELSE IF argv[i] = "--cache-rebuild"
    THEN parseFrom(argv, i + 1, [c EXCEPT !.cacheRebuild = TRUE])
  ELSE IF argv[i] = "--verbose" THEN parseFrom(argv, i + 1, [c EXCEPT !.verbose = TRUE])
  ELSE IF IsOption(argv[i]) THEN [ended |-> "throw", cfg |-> c]
  ELSE parseFrom(argv, i + 1, c)

parseArgs(argv) == parseFrom(argv, 1, DefaultCli)

\* resolveFiles: the single file, or what fast-glob finds (globbed)
resolveFiles(cfg, globbed) ==
  IF cfg.singleFile # "" THEN <<cfg.singleFile>> ELSE globbed

\* lines 731-739 with the error of processFile thrown on (no catch)
afterProcessFile_Rethrows(r, f, loc) ==
  IF r.threw # "none" THEN [loc EXCEPT !.thrown = "doc"]
  ELSE [loc EXCEPT !.changed = IF r.changed THEN @ + 1 ELSE @,
                   !.skipped = IF r.changed THEN @ ELSE @ + 1,
                   !.newlyAddedToCache = @ \o r.added]

\* lines 731-739 with a failed write counted as a change
afterProcessFile_CountsFailedWrite(r, f, loc) ==
  IF r.threw = "write" THEN [loc EXCEPT !.changed = @ + 1, !.errors = Append(@, f)]
  ELSE IF r.threw # "none" THEN [loc EXCEPT !.errors = Append(@, f)]
  ELSE [loc EXCEPT !.changed = IF r.changed THEN @ + 1 ELSE @,
                   !.skipped = IF r.changed THEN @ ELSE @ + 1,
                   !.newlyAddedToCache = @ \o r.added]

\* lines 731-739: the locals of main after processFile returned r, or threw
\* (r.threw), for file f; errors are the files reported at line 738
afterProcessFile(r, f, loc) ==
  IF r.threw # "none" THEN [loc EXCEPT !.errors = Append(@, f)]
  ELSE [loc EXCEPT !.changed = IF r.changed THEN @ + 1 ELSE @,
                   !.skipped = IF r.changed THEN @ ELSE @ + 1,
                   !.newlyAddedToCache = @ \o r.added]

\* line 742
mergedCacheOf(cacheHashtags, newlyAddedToCache) ==
  ByValue(sortLabels, ByValue(uniqueStable, cacheHashtags \o newlyAddedToCache))

\* no call has returned yet
Unset == <<"unset">>

\* mapRes before mapToCache has returned
NoMapRes == [mapped |-> Unset, score |-> Frac(0, 1), from |-> Null]

\* conf before loadConfig has returned
NoConf == [defaults EXCEPT !.denylistMode = "unset"]

\* denyRes before filterNewWithDenylist has returned
NoDenyRes == [kept |-> <<Unset>>, denied |-> <<Unset>>]

\* res before processFile has returned
NoOutcome == Outcome("unset", FALSE, <<>>, <<>>, FALSE, <<>>, FALSE)

\* what fs and gray-matter do during processFile on this file
ioOf(file) ==
  CASE file.status = "unreadable" -> "readFails"
    [] file.status = "badyaml" -> "parseFails"
    [] file.status = "readonly" -> "writeFails"
    [] OTHER -> "ok"

\* line 731 with the labels added so far in the batch joined to the vocabulary
loopCall_GrowingVocabulary(file, cfg, conf, cacheHashtags, newlyAddedToCache) ==
  processFile(file, cfg, conf, cacheHashtags \o newlyAddedToCache, ioOf(file))

\* line 731: the call of processFile in the loop, on the file as it is on
\* disk, with the vocabulary loaded before the loop
loopCall(file, cfg, conf, cacheHashtags, newlyAddedToCache) ==
  processFile(file, cfg, conf, cacheHashtags, ioOf(file))

VARIABLES
  raw, cleaned,                          \* SpecSlug: argument and result
  candidate, cache, threshold, mapRes,   \* SpecMap: arguments and result
  configFile,                            \* the config file on disk
  conf,                                  \* the RequiredTaggerConfig loaded from it
  newItems, denyRes,                     \* SpecDeny: argument and result
  cfg,                                   \* the CliConfig that parseArgs returned
  disk,                                  \* the Markdown files: path -> file
  before,                                \* disk when the last processFile began
  cacheHashtags,                         \* the vocabulary passed to processFile
  res,                                   \* what the last processFile returned
  runs,                                  \* the number of processFile calls made
  pc,                                    \* where main is
  argv,                                  \* process.argv.slice(2)
  globbed,                               \* the paths fast-glob returns
  files,                                 \* the paths resolveFiles returned
  cacheFile,                             \* the cache file on disk
  idx,                                   \* the position of the loop in files
  loc,                                   \* changed, skipped, newlyAddedToCache of main,
                                         \* the files reported at line 738 (errors) and
                                         \* the error that left main (thrown)
  log,                                   \* per path: what processFile did and what main counted
  writeCalls,                            \* the targets of fs.writeFile calls, in order
  disk0, cacheFile0                      \* disk and cacheFile when the run began

slugVars == <<raw, cleaned>>

mapVars == <<candidate, cache, threshold, mapRes>>

denyVars == <<configFile, conf, newItems, denyRes>>

IdleSlug == raw = <<>> /\ cleaned = Unset

IdleMap ==
  candidate = Unset /\ cache = <<>> /\ threshold = Frac(0, 1) /\ mapRes = NoMapRes

IdleDeny ==
  configFile = EmptyConfig /\ conf = NoConf /\ newItems = <<>> /\ denyRes = NoDenyRes

procVars == <<cfg, disk, before, cacheHashtags, res, runs>>

IdleProc ==
  /\ cfg = DefaultCli /\ disk = <<>> /\ before = <<>> /\ cacheHashtags = <<>>
  /\ res = NoOutcome /\ runs = 0

mainVars ==
  <<pc, argv, globbed, files, cacheFile, idx, loc, log, writeCalls, disk0, cacheFile0>>

\* the locals of main at line 727
NoLocals ==
  [changed |-> 0, skipped |-> 0, newlyAddedToCache |-> <<>>, errors |-> <<>>,
   thrown |-> "none"]

AbsentCache == [status |-> "absent", valid |-> FALSE, hashtags |-> <<>>, writable |-> TRUE]

IdleMain ==
  /\ pc = "idle" /\ argv = <<>> /\ globbed = <<>> /\ files = <<>>
  /\ cacheFile = AbsentCache /\ idx = 0 /\ loc = NoLocals /\ log = <<>>
  /\ writeCalls = <<>> /\ disk0 = <<>> /\ cacheFile0 = AbsentCache

vars == <<slugVars, mapVars, denyVars, procVars, mainVars>>

\* ------------------------------------------------------------------------
\* SpecSlug: slugifyHashtag applied to every short string over SlugAlphabet
\* ------------------------------------------------------------------------

MaxRawLen == 4

SlugAlphabet == {"a", "s", "A", "7", "-", " ", "#", "&", "'", "!"}

InitSlug ==
  /\ raw \in SeqsUpTo(SlugAlphabet, MaxRawLen)
  /\ cleaned = Unset
  /\ IdleMap /\ IdleDeny /\ IdleProc /\ IdleMain

\* one call slugifyHashtag(raw)
Slugify ==
  /\ cleaned = Unset
  /\ cleaned' = slugifyHashtag(raw)
  /\ UNCHANGED <<raw, mapVars, denyVars, procVars, mainVars>>

\* the result of a call is passed to slugifyHashtag again (as processFile does
\* with hashtags it wrote on an earlier run)
Reslugify ==
  /\ cleaned \notin {Unset, Null}
  /\ raw # cleaned
  /\ raw' = cleaned
  /\ cleaned' = slugifyHashtag(cleaned)
  /\ UNCHANGED <<mapVars, denyVars, procVars, mainVars>>

NextSlug == Slugify \/ Reslugify

SpecSlug == InitSlug /\ [][NextSlug]_vars

\* C4: slugifyHashtag returns null or a string of the Label grammar, and a
\* non-null result is a fixed point of slugifyHashtag.
C4_SlugTotalIdempotent ==
  cleaned # Unset =>
    \/ cleaned = Null
    \/ /\ IsLabel(cleaned)
       /\ slugifyHashtag(cleaned) = cleaned

\* a raw string that normalization changed into a label of two tokens, then
\* passed through slugifyHashtag a second time
C4_Witness ==
  /\ cleaned \notin {Unset, Null}
  /\ raw = cleaned
  /\ \E i \in 1..Len(cleaned) : cleaned[i] = "-"

\* ------------------------------------------------------------------------
\* SpecMap: mapToCache applied to labels, caches and thresholds
\* ------------------------------------------------------------------------

MaxCacheLen == 3

api == <<"a","p","i">>

design == <<"d","e","s","i","g","n">>

astro == <<"a","s","t","r","o">>

apiDesign == <<"a","p","i","-","d","e","s","i","g","n">>

designApi == <<"d","e","s","i","g","n","-","a","p","i">>

apiDesigns == <<"a","p","i","-","d","e","s","i","g","n","s">>

MapLabels == {api, design, astro, apiDesign, designApi, apiDesigns}

\* cacheSimilarityThreshold values in [0,1] (line 430), 0.6 the default (line 400)
Thresholds == {Frac(0, 1), Frac(1, 3), Frac(1, 2), Frac(3, 5), Frac(1, 1)}

InitMap ==
  /\ candidate \in MapLabels
  /\ cache \in SeqsUpTo(MapLabels, MaxCacheLen)
  /\ threshold \in Thresholds
  /\ mapRes = NoMapRes
  /\ IdleSlug /\ IdleDeny /\ IdleProc /\ IdleMain

\* one call mapToCache(candidate, cache, threshold)
MapToCache ==
  /\ mapRes = NoMapRes
  /\ mapRes' = mapToCache(candidate, cache, threshold)
  /\ UNCHANGED <<candidate, cache, threshold, slugVars, denyVars, procVars, mainVars>>

NextMap == MapToCache

SpecMap == InitMap /\ [][NextMap]_vars

\* C5: a candidate that is in the cache verbatim maps to itself with score 1,
\* whatever the threshold and whatever entries come before it.
C5_ExactMatchShortCircuit ==
  (mapRes # NoMapRes /\ candidate \in Range(cache)) =>
    /\ mapRes.mapped = candidate
    /\ mapRes.from = candidate
    /\ mapRes.score = Frac(1, 1)

\* the candidate is the last entry of the cache, after an entry with the same
\* token set (Jaccard score 1), and the call has returned
C5_Witness ==
  /\ mapRes # NoMapRes
  /\ Len(cache) >= 2
  /\ cache[Len(cache)] = candidate
  /\ cache[1] # candidate
  /\ tokeniseSlug(cache[1]) = tokeniseSlug(candidate)

\* ------------------------------------------------------------------------
\* SpecDeny: a denylist is loaded by loadConfig and applied by
\* filterNewWithDenylist
\* ------------------------------------------------------------------------

MaxDenyLen == 2

MaxNewItems == 2

astroStar == <<"a","s","t","r","o","-","*">>

astroComponents == <<"a","s","t","r","o","-","c","o","m","p","o","n","e","n","t","s">>

\* "A?tro"
aQtro == <<"A","?","t","r","o">>

\* denylist entries as written in the config file
DenyEntries == {astroStar, astro, aQtro}

DenyCandidates == {astro, astroComponents, apiDesign}

InitDeny ==
  /\ \E dl \in SeqsUpTo(DenyEntries, MaxDenyLen), mode \in {"exact", "glob"} :
       configFile = [EmptyConfig EXCEPT !.denylist = StrArray(dl),
                                        !.denylistMode = mode]
  /\ conf = NoConf
  /\ newItems \in {s \in SeqsUpTo(DenyCandidates, MaxNewItems) : uniqueStable(s) = s}
  /\ denyRes = NoDenyRes
  /\ IdleSlug /\ IdleMap /\ IdleProc /\ IdleMain

\* main, line 705
LoadConfigDeny ==
  /\ conf = NoConf
  /\ conf' = loadConfig(configFile).conf
  /\ UNCHANGED <<configFile, newItems, denyRes, slugVars, mapVars, procVars, mainVars>>

\* processFile, line 639
FilterNew ==
  /\ conf # NoConf
  /\ denyRes = NoDenyRes
  /\ denyRes' = filterNewWithDenylist(newItems, conf.denylist, conf.denylistMode)
  /\ UNCHANGED <<configFile, conf, newItems, slugVars, mapVars, procVars, mainVars>>

NextDeny == LoadConfigDeny \/ FilterNew

SpecDeny == InitDeny /\ [][NextDeny]_vars

\* C6: in glob mode a candidate is denied exactly when it matches one of the
\* patterns as written in the config file; with denylist ["astro-*"],
\* astro-components is denied and astro is kept.
C6_GlobPatternsAsWritten ==
  (denyRes # NoDenyRes /\ configFile.denylistMode = "glob") =>
    /\ \A x \in Range(newItems) :
         x \in Range(denyRes.denied) <=>
           \E i \in 1..Len(configFile.denylist.items) :
             globTest(configFile.denylist.items[i], x)
    /\ configFile.denylist.items = <<astroStar>> =>
         /\ astroComponents \in Range(newItems) => astroComponents \in Range(denyRes.denied)
         /\ astro \in Range(newItems) => astro \in Range(denyRes.kept)

\* ------------------------------------------------------------------------
\* SpecProc: processFile, in write mode, twice on one file with the same
\* configuration and vocabulary
\* ------------------------------------------------------------------------

MaxExisting == 2

MaxMax == 2

MaxProcCache == 1

MaxRuns == 2

\* "API Design"
rawApiDesign == <<"A","P","I"," ","D","e","s","i","g","n">>

\* "The"
rawThe == <<"T","h","e">>

\* strings found in a frontmatter hashtags list: one that slugifyHashtag
\* changes, one that it rejects, one that is a label already
RawHashtags == {rawApiDesign, rawThe, astro}

HashtagValues ==
  {NotStrArray} \cup {StrArray(h) : h \in SeqsUpTo(RawHashtags, MaxExisting)}

\* "Intro to API Design"
titleIntro == <<"I","n","t","r","o"," ","t","o"," ","A","P","I"," ","D","e","s","i","g","n">>

\* "APIs need contracts. APIs."
bodyApis ==
  <<"A","P","I","s"," ","n","e","e","d"," ","c","o","n","t","r","a","c","t","s","."," ","A","P","I","s",".">>

\* "# Rust\n```\n# todo\n```\nrust `x` rust\n"
bodyRust ==
  <<"#"," ","R","u","s","t","\n",BT,BT,BT,"\n","#"," ","t","o","d","o","\n",BT,BT,BT,"\n","r","u","s","t"," ",BT,"x",BT," ","r","u","s","t","\n">>

\* "Astro Components"
rawAstroComponents == <<"A","s","t","r","o"," ","C","o","m","p","o","n","e","n","t","s">>

\* title, tags and body of the files
Profiles ==
  {[base |-> <<"p","o","s","t">>, title |-> titleIntro, tags |-> NotStrArray,
    content |-> bodyApis],
   [base |-> astro, title |-> Null, tags |-> StrArray(<<rawApiDesign, rawAstroComponents>>),
    content |-> bodyRust],
   [base |-> <<"x">>, title |-> rawThe, tags |-> StrArray(<<astro>>), content |-> <<>>]}

ProcFiles ==
  {[status |-> "ok", base |-> pr.base, title |-> pr.title, hashtags |-> h,
    tags |-> pr.tags, content |-> pr.content] : pr \in Profiles, h \in HashtagValues}

\* denylist and denylistMode as written in the config file
DenyChoices ==
  {[denylist |-> <<>>, mode |-> "exact"],
   [denylist |-> <<astro>>, mode |-> "exact"],
   [denylist |-> <<rawApiDesign>>, mode |-> "glob"]}

ProcThresholds == {Frac(0, 1), Frac(3, 5)}

ProcConfigs ==
  {[EmptyConfig EXCEPT !.min = Num(1), !.max = Num(m),
                       !.denylist = StrArray(d.denylist), !.denylistMode = d.mode,
                       !.cacheSimilarityThreshold = Num(th)] :
     m \in 1..MaxMax, d \in DenyChoices, th \in ProcThresholds}

ProcLabels == {apiDesign, astro}

\* the one path of SpecProc
ThePath == "post.md"

InitProc ==
  /\ configFile \in ProcConfigs
  /\ conf = loadConfig(configFile).conf
  /\ cfg = [DefaultCli EXCEPT !.dryRun = FALSE, !.write = TRUE]
  /\ disk \in [{ThePath} -> ProcFiles]
  /\ before = disk
  /\ cacheHashtags \in SeqsUpTo(ProcLabels, MaxProcCache)
  /\ res = NoOutcome
  /\ runs = 0
  /\ newItems = <<>> /\ denyRes = NoDenyRes
  /\ IdleSlug /\ IdleMap /\ IdleMain

\* one call of processFile that returns (main, line 731), with the same
\* configuration and vocabulary as the call before
RunProcessFile ==
  /\ runs < MaxRuns
  /\ res' = processFile(disk[ThePath], cfg, conf, cacheHashtags, "ok")
  /\ before' = disk
  /\ disk' = [disk EXCEPT ![ThePath] = res'.newRaw]
  /\ runs' = runs + 1
  /\ UNCHANGED <<cfg, cacheHashtags, denyVars, slugVars, mapVars, mainVars>>

NextProc == RunProcessFile

SpecProc == InitProc /\ [][NextProc]_vars

\* C1: the final list holds every normalised pre-existing label when there are
\* fewer than max of them, and is the first max of them, in order, otherwise;
\* the denylist removes none of them.
C1_ExistingPreserved ==
  runs >= 1 =>
    LET existing == existingHashtagsOf(before[ThePath])
    IN  IF Len(existing) < conf.max
          THEN /\ Range(existing) \subseteq Range(res.final)
               /\ SubSeq(res.final, 1, Len(existing)) = existing
          ELSE res.final = SubSeq(existing, 1, conf.max)

\* a file whose one pre-existing label is on the denylist was processed with
\* max = 2 and a label was added
C1_Witness ==
  /\ runs = 1
  /\ conf.max = 2
  /\ conf.denylist = <<astro>>
  /\ existingHashtagsOf(before[ThePath]) = <<astro>>
  /\ Len(res.added) > 0

\* C3: the second processFile on the file the first one wrote, with the same
\* configuration and vocabulary, adds nothing and reports no change.
C3_Idempotent ==
  runs = 2 => (res.added = <<>> /\ ~res.changed /\ disk = before)

\* the first call changed the file (before is what it wrote) and the second
\* call has returned
C3_Witness ==
  /\ runs = 2
  /\ before[ThePath].hashtags.isStringArray
  /\ before[ThePath].content = bodyApis \o <<"\n">>
  /\ Len(before[ThePath].hashtags.items) = 2
  /\ Len(res.final) = 2

\* main (lines 703-751): one run of the program over the files of the batch

NumFiles == 2
PathNames == <<"a.md", "b.md", "c.md", "d.md">>
AllPaths == SubSeq(PathNames, 1, NumFiles)

rust == <<"r","u","s","t">>

\* "Rust/Rust", whose slug rust-rust has the one token of the label rust
rawRustRust == <<"R","u","s","t","/","R","u","s","t">>

rustRust == <<"r","u","s","t","-","r","u","s","t">>

\* has two raw hashtags, one of them a stopword, and a tag that is a new label
docNew ==
  [status |-> "ok", base |-> rust, title |-> Null,
   hashtags |-> StrArray(<<rawApiDesign, rawThe>>), tags |-> StrArray(<<rust>>),
   content |-> <<>>]

\* every candidate is a label it already has
docSame ==
  [status |-> "ok", base |-> astro, title |-> Null, hashtags |-> StrArray(<<astro>>),
   tags |-> StrArray(<<astro>>), content |-> <<>>]

\* gains a label, and fs.writeFile on it throws
docReadonly ==
  [status |-> "readonly", base |-> api, title |-> Null, hashtags |-> NotStrArray,
   tags |-> StrArray(<<rawRustRust>>), content |-> <<>>]

docUnreadable == [docNew EXCEPT !.status = "unreadable"]

docBadYaml == [docSame EXCEPT !.status = "badyaml"]

MainFiles == {docNew, docSame, docReadonly, docUnreadable, docBadYaml}

ArgvChoices ==
  {<<>>, <<"--write">>, <<"--write", "--dry-run">>, <<"--cache-rebuild">>,
   <<"--cache-rebuild", "--write">>, <<"--file", "a.md", "--write">>, <<"--file">>,
   <<"--bogus">>, <<"--help">>}

AbsentConfig == [EmptyConfig EXCEPT !.status = "absent"]

MainConfigs ==
  {AbsentConfig,
   [EmptyConfig EXCEPT !.status = "malformed"],
   [EmptyConfig EXCEPT !.min = Num(1), !.max = Num(2)],
   [EmptyConfig EXCEPT !.min = Num(0)],
   [EmptyConfig EXCEPT !.min = Num(3), !.max = Num(2)]}

CacheChoices ==
  {AbsentCache,
   [AbsentCache EXCEPT !.writable = FALSE],
   [AbsentCache EXCEPT !.status = "malformed"],
   [AbsentCache EXCEPT !.status = "ok"],
   [AbsentCache EXCEPT !.status = "ok", !.valid = TRUE],
   [AbsentCache EXCEPT !.status = "ok", !.valid = TRUE, !.hashtags = <<apiDesign>>],
   [AbsentCache EXCEPT !.status = "ok", !.valid = TRUE, !.hashtags = <<apiDesign, apiDesign>>],
   [AbsentCache EXCEPT !.status = "ok", !.valid = TRUE, !.writable = FALSE]}

\* log before processFile was called on the path
NoEntry ==
  [threw |-> "unset", changed |-> FALSE, added |-> <<>>, final |-> <<>>,
   counted |-> "unset", calls |-> 0]

Init ==
  /\ argv \in ArgvChoices
  /\ configFile \in MainConfigs
  /\ \E n \in 0..NumFiles :
       /\ globbed = SubSeq(AllPaths, 1, n)
       /\ disk \in [{AllPaths[i] : i \in 1..n} -> MainFiles]
  /\ cacheFile \in CacheChoices
  /\ disk0 = disk /\ cacheFile0 = cacheFile
  /\ pc = "parseArgs"
  /\ files = <<>> /\ idx = 0 /\ loc = NoLocals /\ writeCalls = <<>>
  /\ log = [f \in Range(AllPaths) |-> NoEntry]
  /\ cfg = DefaultCli /\ conf = NoConf /\ cacheHashtags = <<>>
  /\ before = <<>> /\ res = NoOutcome /\ runs = 0
  /\ newItems = <<>> /\ denyRes = NoDenyRes
  /\ IdleSlug /\ IdleMap

\* main ends with the error `what` thrown out of it
Crash(what) == pc' = "crashed" /\ loc' = [loc EXCEPT !.thrown = what]

\* line 704
ParseArgs ==
  /\ pc = "parseArgs"
  /\ cfg' = parseArgs(argv).cfg
  /\ \/ parseArgs(argv).ended = "return" /\ pc' = "loadConfig" /\ UNCHANGED loc
     \/ parseArgs(argv).ended = "exit0" /\ pc' = "exit0" /\ UNCHANGED loc
     \/ parseArgs(argv).ended = "throw" /\ Crash("args")
  /\ UNCHANGED <<argv, globbed, files, cacheFile, idx, log, writeCalls, disk0, cacheFile0>>
  /\ UNCHANGED <<disk, before, cacheHashtags, res, runs, denyVars, slugVars, mapVars>>

\* the file that loadConfig(cfg.configFile) reads
configFileAt(path, file) == IF path = DefaultCli.configFile THEN file ELSE AbsentConfig

\* line 705
LoadConfig ==
  /\ pc = "loadConfig"
  /\ \/ /\ loadConfig(configFileAt(cfg.configFile, configFile)).threw = "none"
        /\ conf' = loadConfig(configFileAt(cfg.configFile, configFile)).conf
        /\ pc' = "resolveFiles"
        /\ UNCHANGED loc
     \/ /\ loadConfig(configFileAt(cfg.configFile, configFile)).threw # "none"
        /\ Crash("config")
        /\ UNCHANGED conf
  /\ UNCHANGED <<argv, globbed, files, cacheFile, idx, log, writeCalls, disk0, cacheFile0>>
  /\ UNCHANGED <<procVars, configFile, newItems, denyRes, slugVars, mapVars>>

\* lines 707-713
ResolveFiles ==
  /\ pc = "resolveFiles"
  /\ files' = resolveFiles(cfg, globbed)
  /\ pc' = IF Len(files') = 0 THEN "exit1"
           ELSE IF cfg.cacheRebuild THEN "cacheRebuild"
           ELSE "loadCache"
  /\ UNCHANGED <<argv, globbed, cacheFile, idx, loc, log, writeCalls, disk0, cacheFile0>>
  /\ UNCHANGED <<procVars, denyVars, slugVars, mapVars>>

\* what main does with the result r of buildCache or loadOrCreateCache
CacheCallReturns(r, next) ==
  /\ cacheFile' = r.cacheFile
  /\ cacheHashtags' = IF r.threw = "none" /\ next = "loop" THEN r.hashtags ELSE cacheHashtags
  /\ idx' = IF r.threw = "none" /\ next = "loop" THEN 1 ELSE idx
  /\ writeCalls' = IF r.wrote THEN Append(writeCalls, "cache") ELSE writeCalls
  /\ \/ r.threw = "none" /\ pc' = next /\ UNCHANGED loc
     \/ r.threw # "none" /\ Crash(r.threw)

\* lines 715-719
CacheRebuild ==
  /\ pc = "cacheRebuild"
  /\ \E r \in {buildCache(files, disk, cacheFile, cfg.dryRun)} :
       CacheCallReturns(r, "rebuilt")
  /\ UNCHANGED <<argv, globbed, files, log, disk0, cacheFile0>>
  /\ UNCHANGED <<cfg, disk, before, res, runs, denyVars, slugVars, mapVars>>

\* lines 721-722
LoadOrCreateCache ==
  /\ pc = "loadCache"
  /\ \E r \in {loadOrCreateCache(files, disk, cacheFile, cfg.dryRun)} :
       CacheCallReturns(r, "loop")
  /\ UNCHANGED <<argv, globbed, files, log, disk0, cacheFile0>>
  /\ UNCHANGED <<cfg, disk, before, res, runs, denyVars, slugVars, mapVars>>

\* what main counted for a file, read off its locals before and after
countedOf(old, new) ==
  IF new.changed > old.changed THEN "changed"
  ELSE IF new.skipped > old.skipped THEN "skipped"
  ELSE "none"

\* one turn of the loop at line 729 for file f, processFile having returned or
\* thrown r
LoopTurn(r, f) ==
  /\ res' = r
  /\ loc' = afterProcessFile(r, f, loc)
  /\ disk' = IF r.wrote THEN [disk EXCEPT ![f] = r.newRaw] ELSE disk
  /\ writeCalls' = IF r.wrote \/ r.threw = "write" THEN Append(writeCalls, f)
                   ELSE writeCalls
  /\ log' = [log EXCEPT ![f] = [threw |-> r.threw, changed |-> r.changed,
                                added |-> r.added, final |-> r.final,
                                counted |-> countedOf(loc, loc'),
                                calls |-> @.calls + 1]]
  /\ idx' = idx + 1
  /\ pc' = IF loc'.thrown # "none" THEN "crashed"
           ELSE IF idx = Len(files) THEN "merge"
           ELSE "loop"

\* lines 729-740
ProcessNext ==
  /\ pc = "loop"
  /\ idx <= Len(files)
  /\ \E r \in {loopCall(fileAt(disk, files[idx]), cfg, conf, cacheHashtags,
                         loc.newlyAddedToCache)} :
       LoopTurn(r, files[idx])
  /\ UNCHANGED <<argv, globbed, files, cacheFile, disk0, cacheFile0>>
  /\ UNCHANGED <<cfg, before, cacheHashtags, runs, denyVars, slugVars, mapVars>>

\* lines 742-747
UpdateCache ==
  /\ pc = "merge"
  /\ \/ /\ Len(mergedCacheOf(cacheHashtags, loc.newlyAddedToCache)) = Len(cacheHashtags)
           \/ cfg.dryRun
        /\ pc' = "done"
        /\ UNCHANGED <<cacheFile, writeCalls, loc>>
     \/ /\ Len(mergedCacheOf(cacheHashtags, loc.newlyAddedToCache)) # Len(cacheHashtags)
        /\ ~cfg.dryRun
        /\ writeCalls' = Append(writeCalls, "cache")
        /\ \/ /\ cacheFile.writable
              /\ cacheFile' = writtenCache(cacheFile,
                                mergedCacheOf(cacheHashtags, loc.newlyAddedToCache))
              /\ pc' = "done"
              /\ UNCHANGED loc
           \/ /\ ~cacheFile.writable
              /\ Crash("cacheWrite")
              /\ UNCHANGED cacheFile
  /\ UNCHANGED <<argv, globbed, files, idx, log, disk0, cacheFile0>>
  /\ UNCHANGED <<procVars, denyVars, slugVars, mapVars>>

Next ==
  \/ ParseArgs
  \/ LoadConfig
  \/ ResolveFiles
  \/ CacheRebuild
  \/ LoadOrCreateCache
  \/ ProcessNext
  \/ UpdateCache

Spec == Init /\ [][Next]_vars

\* every await of main resolves or rejects
FairSpec == Spec /\ WF_vars(Next)

\* the paths of the batch
Batch == Range(files)

\* processFile on f threw while reading or parsing it
ReadOrParseFailed(f) == log[f].threw \in {"read", "parse"}

\* the loop of main is over
LoopOver ==
  \/ pc \in {"merge", "done"}
  \/ pc = "crashed" /\ loc.thrown = "cacheWrite" /\ idx > Len(files)

\* C2: every string that was in the hashtags list of a document when the run
\* began is in the hashtags list of that document on disk.
C2_RawHashtagsStay ==
  \A f \in DOMAIN disk :
    disk0[f].hashtags.isStringArray =>
      /\ disk[f].hashtags.isStringArray
      /\ Range(disk0[f].hashtags.items) \subseteq Range(disk[f].hashtags.items)

\* C7: while the parsed options have dryRun = true, fs.writeFile has not been
\* called and the documents and the cache file are as they were when the run
\* began, wherever main is.
C7_DryRunWritesNothing ==
  cfg.dryRun => (writeCalls = <<>> /\ disk = disk0 /\ cacheFile = cacheFile0)

\* a dry run reached its report after it built the missing cache, found a
\* document changed and had new labels for the cache
C7_Witness ==
  /\ pc = "done"
  /\ cfg.dryRun
  /\ cacheFile0.status = "absent"
  /\ loc.changed > 0
  /\ Len(mergedCacheOf(cacheHashtags, loc.newlyAddedToCache)) # Len(cacheHashtags)

\* C8 as stated: a document whose write failed is counted as changed.
C8_FailedWriteCountedChanged ==
  \A f \in Batch : log[f].threw = "write" => log[f].counted = "changed"

\* C8: when the write of a document fails, the error is caught and reported,
\* the loop goes on to the next document, the document is counted neither as
\* changed nor as skipped, it is as it was on disk, and changed counts exactly
\* the documents for which processFile returned changed = true.
C8_FailedWriteNotCounted ==
  /\ \A f \in Batch :
       log[f].threw = "write" =>
         /\ log[f].counted = "none"
         /\ f \in Range(loc.errors)
         /\ disk[f] = disk0[f]
         /\ loc.thrown # "doc"
         /\ pc \in {"loop", "merge", "done"} \/ LoopOver
  /\ loc.changed = Cardinality({f \in Batch : log[f].threw = "none" /\ log[f].changed})
  /\ loc.skipped = Cardinality({f \in Batch : log[f].threw = "none" /\ ~log[f].changed})

\* the write of the first document failed, the second document was changed
\* and the run reached its report
C8_Witness ==
  /\ pc = "done"
  /\ Len(files) = 2
  /\ log[files[1]].threw = "write"
  /\ log[files[2]].counted = "changed"

\* the normalised hashtags of the documents of the batch that can be read
\* and parsed, as they were when the run began
BatchHashtags ==
  UNION {Range(existingHashtagsOf(disk0[f])) :
           f \in {g \in Batch \cap DOMAIN disk0 : disk0[g].status \in {"ok", "readonly"}}}

\* C9 as stated: with the cache file absent or malformed the run does not
\* fail on it and the documents are processed with an empty vocabulary.
C9_LoadFailureGivesEmptyVocabulary ==
  cacheFile0.status \in {"absent", "malformed"} =>
    /\ loc.thrown # "cacheRead"
    /\ pc \in {"loop", "merge", "done"} => cacheHashtags = <<>>

\* C9: the documents are processed only with the hashtags of a version-1
\* cache file or, when the file is absent or not a version-1 cache, with the
\* vocabulary rebuilt from the normalised hashtags of the batch's documents
\* (written to the cache file in write mode); when the cache file cannot be
\* parsed the run fails on it before any document is processed.
C9_AbsentRebuiltMalformedFatal ==
  /\ pc \in {"loop", "merge", "done"} =>
       IF cacheFile0.status = "ok" /\ cacheFile0.valid
         THEN cacheHashtags = cacheFile0.hashtags
         ELSE /\ cacheFile0.status # "malformed"
              /\ Range(cacheHashtags) = BatchHashtags
              /\ ~cfg.dryRun => (writeCalls # <<>> /\ writeCalls[1] = "cache")
  /\ (cacheFile0.status = "malformed" /\ pc \in {"crashed", "loop", "merge", "done"}
        /\ loc.thrown \notin {"args", "config"} /\ ~cfg.cacheRebuild) =>
       /\ pc = "crashed" /\ loc.thrown = "cacheRead"
       /\ \A f \in Range(AllPaths) : log[f].calls = 0

\* the cache file was absent, the vocabulary was rebuilt with a label in it
\* and the run reached its report
C9_Witness ==
  /\ pc = "done"
  /\ cacheFile0.status = "absent"
  /\ cacheHashtags # <<>>

\* C10 as stated: once reading or parsing a document has failed, the run
\* reaches its final report.
C10_FailureThenFinalReport ==
  (\E f \in Range(AllPaths) : ReadOrParseFailed(f)) ~> (pc = "done")

\* what holds in every state of a batch with failed documents
FailureIsolated ==
  /\ \A f \in Range(AllPaths) :
       /\ log[f].calls <= 1
       /\ ReadOrParseFailed(f) =>
            /\ f \in Range(loc.errors)
            /\ fileAt(disk, f) = fileAt(disk0, f)
            /\ f \notin Range(writeCalls)
            /\ log[f].counted = "none"
  /\ loc.thrown # "doc"
  /\ LoopOver => \A f \in Batch : log[f].calls = 1

\* C10: a document whose read or parse failed is reported, is not written and
\* is not counted; no document is attempted twice; the failure does not end
\* main, every document of the batch is attempted, and the run reaches its
\* final report unless the write of the updated cache file fails.
C10_FailureIsolated ==
  /\ []FailureIsolated
  /\ (\E f \in Range(AllPaths) : ReadOrParseFailed(f))
       ~> (pc = "done" \/ (pc = "crashed" /\ loc.thrown = "cacheWrite" /\ LoopOver))

\* the read of the first document failed, the second document was changed
\* and the run reached its report
C10_Witness ==
  /\ pc = "done"
  /\ Len(files) = 2
  /\ log[files[1]].threw = "read"
  /\ log[files[2]].counted = "changed"
  /\ disk[files[2]] # disk0[files[2]]

\* C11: when a batch in write mode has reached its report, the cache file
\* holds every label of the vocabulary loaded at the start and every label
\* that a document reported as added.
C11_PersistedVocabularyComplete ==
  (pc = "done" /\ ~cfg.dryRun) =>
    /\ cacheFile.status = "ok"
    /\ Range(cacheHashtags) \cup Range(loc.newlyAddedToCache)
         \subseteq Range(cacheFile.hashtags)

\* the vocabulary that the run loads before the loop, from the cache file and
\* the documents as they were when the run began
Snapshot == loadOrCreateCache(files, disk0, cacheFile0, cfg.dryRun).hashtags

\* the outcome of a document processed alone with the vocabulary v
OutcomeAlone(f, v) ==
  ByValue(LAMBDA r : [threw |-> r.threw, changed |-> r.changed, added |-> r.added,
                      final |-> r.final],
          processFile(fileAt(disk0, f), cfg, conf, v, ioOf(fileAt(disk0, f))))

\* C12: from the first document to the report the vocabulary used for mapping
\* is the one loaded before the loop, and the outcome (changed, added, final)
\* of every processed document is the outcome of processing that document
\* alone with that vocabulary, whatever was processed and added before it.
C12_SnapshotNotChanged ==
  pc \in {"loop", "merge", "done"} \/ LoopOver =>
    /\ cacheHashtags = Snapshot
    /\ \A f \in Batch :
         log[f].calls = 1 =>
           [threw |-> log[f].threw, changed |-> log[f].changed,
            added |-> log[f].added, final |-> log[f].final]
             = OutcomeAlone(f, Snapshot)

\* the first document added the label rust and the second, processed after
\* it, kept its candidate rust-rust, which the label rust would have taken
C12_Witness ==
  /\ pc = "done"
  /\ Len(files) = 2
  /\ log[files[1]].added = <<rust>>
  /\ rustRust \in Range(log[files[2]].added)
  /\ mapToCache(rustRust, <<rust>>, conf.cacheSimilarityThreshold).mapped = rust

\* the Jaccard score of the candidate and entry i of the cache, over their
\* sets of hyphen-separated tokens
ScoreAt(i) ==
  LET c == {t \in Range(split(candidate, "-")) : t # <<>>}
      e == {t \in Range(split(cache[i], "-")) : t # <<>>}
  IN  Frac(Cardinality(c \cap e), Cardinality(c \cup e))

\* the first entry of the cache, in cache order, with the maximum score
FirstBest ==
  CHOOSE i \in 1..Len(cache) :
    /\ \A j \in 1..Len(cache) : FracGeq(ScoreAt(i), ScoreAt(j))
    /\ \A j \in 1..(i - 1) : FracGt(ScoreAt(i), ScoreAt(j))

\* the maximum score over the cache (0 for an empty cache)
MaxScore == IF cache = <<>> THEN Frac(0, 1) ELSE ScoreAt(FirstBest)

\* mapToCache returned the candidate with the best score found
NotRemapped(from) ==
  /\ mapRes.mapped = candidate
  /\ mapRes.from = from
  /\ FracEq(mapRes.score, MaxScore)

\* C13 as stated, for a vocabulary with entries: whenever the maximum score
\* reaches the threshold the first entry with that score is returned as
\* mapped and as from; else the candidate is returned with from = null.
C13_MaxScoreDecides ==
  (mapRes # NoMapRes /\ candidate \notin Range(cache) /\ cache # <<>>) =>
    IF FracGeq(MaxScore, threshold)
      THEN /\ mapRes.mapped = cache[FirstBest]
           /\ mapRes.from = cache[FirstBest]
           /\ FracEq(mapRes.score, MaxScore)
      ELSE NotRemapped(Null)

\* C13: for a candidate that equals no entry: when the maximum score is
\* positive and reaches the threshold, the first entry with that score is
\* returned as mapped and as from; when no entry shares a token with the
\* candidate (maximum 0) the candidate is returned with score 0, with
\* from = candidate under threshold 0 and from = null under any other; when
\* the maximum is below the threshold the candidate is returned with
\* from = null and the maximum as score.  api-designs against [api-design]
\* under 0.6 scores 1/3 and is not remapped.
C13_PositiveMaxScoreDecides ==
  (mapRes # NoMapRes /\ candidate \notin Range(cache)) =>
    /\ IF MaxScore.n > 0 /\ FracGeq(MaxScore, threshold)
         THEN /\ mapRes.mapped = cache[FirstBest]
              /\ mapRes.from = cache[FirstBest]
              /\ FracEq(mapRes.score, MaxScore)
         ELSE IF MaxScore.n = 0 /\ threshold.n = 0 THEN NotRemapped(candidate)
         ELSE NotRemapped(Null)
    /\ (candidate = apiDesigns /\ cache = <<apiDesign>> /\ threshold = Frac(3, 5)) =>
         /\ FracEq(mapRes.score, Frac(1, 3))
         /\ mapRes.mapped = apiDesigns
         /\ mapRes.from = Null

\* the candidate is in no entry, the first two entries differ and both have
\* the maximum score, which is positive and reaches the threshold, and the
\* call has returned
C13_Witness ==
  /\ mapRes # NoMapRes
  /\ candidate \notin Range(cache)
  /\ Len(cache) >= 2
  /\ cache[1] # cache[2]
  /\ FracEq(ScoreAt(1), ScoreAt(2))
  /\ FracEq(ScoreAt(1), MaxScore)
  /\ MaxScore.n > 0
  /\ FracGeq(MaxScore, threshold)
  /\ threshold.n > 0

\* C14: every heading candidate of the processed document comes from a
\* heading line outside fenced code: it is still a heading of the body when
\* the fenced code blocks are taken out.
C14_NoHeadingFromFencedCode ==
  runs >= 1 =>
    \A h \in Range(extractHeadings(before[ThePath].content)) :
      \/ h \notin Range(rawCandidatesOf(before[ThePath], conf))
      \/ h \in Range(extractHeadings(stripFenced(before[ThePath].content)))

====
